---------------------------- MODULE Spec2Model ----------------------------
(***************************************************************************)
(* A model of the integrated response executor (src/response_executor.c):   *)
(* the process-wide subsystem_state (initialized, emergency_mode,           *)
(* current_level, last_report, lock), the public API (re_init_integrated,   *)
(* re_execute_integrated, re_emergency_sequence, re_get_last_report,        *)
(* re_subsystem_ready, re_cleanup_resources) and the sequence handlers.     *)
(*                                                                         *)
(* Application threads (Callers) call the API; every statement that         *)
(* touches subsystem_state is one step, so the calls of different threads   *)
(* interleave between any two of them.  Detached emergency threads          *)
(* (Workers) run emergency_thread_wrapper.  The controllers (the static     *)
(* functions of lines 38-115, system(3), the pthread calls) are the         *)
(* environment.  Two specifications share the actions: Spec interleaves     *)
(* the threads, SeqSpec runs one thread through every request type and      *)
(* every controller outcome.                                                *)
(***************************************************************************)
EXTENDS Integers, Sequences, FiniteSets, TLC

(***************************************************************************)
(* Bounds of the model.                                                    *)
(***************************************************************************)
\* time(NULL) ranges over 1..MaxTime
MaxTime == 2
\* emergency levels passed to re_emergency_sequence range over 1..MaxLevel
MaxLevel == 1

\* re_init_integrated is called at most MaxInitCalls times in a row
MaxInitCalls == 2

\* application threads calling the public API
Callers == {"c1", "c2"}
\* detached threads created by re_emergency_sequence (thread slots)
Workers == {"e1"}
Threads == Callers \cup Workers
NoThread == "none"

(***************************************************************************)
(* response_type_t (response_executor.h:20-29).                             *)
(***************************************************************************)
RESPONSE_LOCKDOWN == 1
RESPONSE_NETWORK_ISOLATE == 2
RESPONSE_SERVICE_FAILOVER == 3
RESPONSE_EVACUATION == 4
RESPONSE_BACKUP_ACTIVATE == 5
RESPONSE_COMMS_PRIORITY == 6
RESPONSE_PARTIAL_CONTAIN == 7
RESPONSE_FULL_RECOVERY == 8
\* the values a response_type_t field can hold: the enum and an int outside it
TypeValues == 0..8

\* RESPONSE_ERROR_CRITICAL_FAILURE, the code of the switch's default branch
RESPONSE_ERROR_CRITICAL_FAILURE == -99

\* width of the zone bitmask walked by execute_network_isolation
ZoneBits == 32
AllZones == 0..(ZoneBits - 1)
\* a zone mask is the set of its set bits; 0xFFFFFFFF is AllZones
ZoneMasks == {{}, {0, 5, 9}, AllZones}

\* the fields re_emergency_sequence gives its Lockdown request
EmergencySeverity == 10
EmergencyDuration == 3600
\* the severity and duration of the ordinary requests of the model
Severities == {5}
Durations == {60}

\* critical_services[] of execute_service_failover
critical_services == <<"cassie-core", "auth-service", "network-monitor", "database-service">>

\* sub_operations as re_execute_integrated records it
SubOperations == 4

(***************************************************************************)
(* integrated_response_t: a request, or the NULL pointer.                   *)
(***************************************************************************)
NullRequest ==
    [null |-> TRUE, type |-> 0, severity |-> 0, target_zones |-> {},
     duration |-> 0, timestamp |-> 0]

Request(ty, sev, zones, dur, ts) ==
    [null |-> FALSE, type |-> ty, severity |-> sev, target_zones |-> zones,
     duration |-> dur, timestamp |-> ts]

\* the request types of the concurrent specification Spec: one type with a
\* sequence handler and one without (SeqSpec runs them all)
ConcTypes == {RESPONSE_LOCKDOWN, RESPONSE_COMMS_PRIORITY}

\* the requests of types T an application thread passes to
\* re_execute_integrated when time(NULL) is ts: the NULL pointer, or a request
\* stamped with its creation time; the zone mask varies where the handler
\* walks it
CallerRequests(T, ts) ==
    {NullRequest} \cup
    {Request(ty, sev, AllZones, d, ts) :
        ty \in T, sev \in Severities, d \in Durations} \cup
    {Request(ty, sev, z, d, ts) :
        ty \in T \cap {RESPONSE_NETWORK_ISOLATE},
        sev \in Severities, d \in Durations, z \in ZoneMasks}

(***************************************************************************)
(* execution_report_t; subsystem_state = {0} zeroes it.                     *)
(***************************************************************************)
ZeroReport ==
    [response_id |-> 0, overall_result |-> 0, start_time |-> 0, end_time |-> 0,
     sub_operations |-> 0, success_count |-> 0, failed_count |-> 0,
     status_summary |-> ""]

\* the locals of a call that is not running
NoLocals == [type |-> 0, result |-> 0, success_ops |-> 0, total_ops |-> 0, i |-> 0]

VARIABLES
    initialized,     \* subsystem_state.initialized
    emergency_mode,  \* subsystem_state.emergency_mode
    current_level,   \* subsystem_state.current_level
    last_report,     \* subsystem_state.last_report
    lock,            \* subsystem_state.lock: [st, owner]
    now,             \* the value time(NULL) returns
    pc,              \* each thread's position in the API call it runs
    req,             \* each thread's request (the callee's *response)
    loc,             \* each thread's locals (type switched on, result, success_ops, total_ops, i)
    calls,           \* the controller calls of a thread's running call, in order
    failed,          \* the operations among them that failed
    ret,             \* the value the thread's call returns
    observed,        \* what the thread read through re_get_last_report()
    stack_valid,     \* worker: is the emergency_response it points to still alive
    child,           \* caller in re_emergency_sequence: the thread it created
    sent,            \* worker: the timestamp its request was built with, and
                     \* whether last_report has carried it as response_id since
    ever_initialized \* has a re_init_integrated call set initialized = true so far

vars == <<initialized, emergency_mode, current_level, last_report, lock, now,
          pc, req, loc, calls, failed, ret, observed, stack_valid, child, sent,
          ever_initialized>>

shared == <<initialized, emergency_mode, current_level, last_report, lock>>


Upd(f, t, v) == [f EXCEPT ![t] = v]

\* one controller call of a running call: the operation and its zone or
\* service argument (-1: none)
Call(op, arg) == [op |-> op, arg |-> arg]

\* thread t calls controller operation op, which succeeds or fails (ok): the
\* call is appended to calls[t], a failing operation is added to failed[t]
Invoke(t, op, arg, ok) ==
    /\ calls' = Upd(calls, t, Append(calls[t], Call(op, arg)))
    /\ failed' = Upd(failed, t, IF ok THEN failed[t] ELSE failed[t] \cup {op})

\* the calls of calls[t] whose operation is op, in call order
CallsOf(t, op) == SelectSeq(calls[t], LAMBDA c : c.op = op)

(***************************************************************************)
(* The pthread mutex.  lock.st is "zero" (the static zero bytes), "valid"   *)
(* (after pthread_mutex_init) or "destroyed"; lock.owner is the thread      *)
(* whose pthread_mutex_lock succeeded last and has not been undone.         *)
(* Each operator gives the set of values the lock can have after the call.  *)
(***************************************************************************)
ZeroLock == [st |-> "zero", owner |-> NoThread]

\* pthread_mutex_init(&lock, NULL): a fresh unlocked mutex, whatever it was
\* (re-initialising a locked mutex is undefined; the C libraries overwrite it)
pthread_mutex_init == [st |-> "valid", owner |-> NoThread]

\* pthread_mutex_lock: blocks while another thread owns the mutex (the empty
\* set); on a destroyed mutex it returns EINVAL at once and the caller, which
\* ignores the return value, goes on without owning it
pthread_mutex_lock(t) ==
    IF lock.st = "destroyed" THEN {lock}
    ELSE IF lock.owner = NoThread THEN {[lock EXCEPT !.owner = t]}
    ELSE {}

\* pthread_mutex_unlock of a default mutex: no owner check, the mutex is
\* released; EINVAL and no effect on a destroyed one
pthread_mutex_unlock(t) ==
    IF lock.st = "destroyed" THEN lock ELSE [lock EXCEPT !.owner = NoThread]

\* pthread_mutex_destroy: marks an unlocked mutex invalid, or leaves it as it
\* is (EBUSY on a locked mutex; a no-op in C libraries whose mutex holds no
\* resource)
pthread_mutex_destroy ==
    IF lock.owner = NoThread
    THEN {[lock EXCEPT !.st = "destroyed"], lock}
    ELSE {lock}

(***************************************************************************)
(* Reads through the request pointer.  An application thread's request      *)
(* lives for the whole call.  A worker's request is the emergency_response  *)
(* local of the re_emergency_sequence call that created it: req[e] is what  *)
(* that storage holds now (see StackReuse).                                 *)
(***************************************************************************)
\* what can overwrite the storage of a returned re_emergency_sequence call
GarbageRequests ==
    {Request(ty, 0, {}, 0, 0) : ty \in ConcTypes}

\* HandlerEntry with RESPONSE_COMMS_PRIORITY falling into the backup branch
HandlerEntry_comms_as_backup(ty) ==
    CASE ty = RESPONSE_LOCKDOWN -> "ld_access"
      [] ty = RESPONSE_NETWORK_ISOLATE -> "ni_flush"
      [] ty = RESPONSE_SERVICE_FAILOVER -> "sf_stop"
      [] ty = RESPONSE_EVACUATION -> "ev_unlock"
      [] ty = RESPONSE_BACKUP_ACTIVATE -> "bk_call"
      [] ty = RESPONSE_COMMS_PRIORITY -> "bk_call"
      [] ty = RESPONSE_PARTIAL_CONTAIN -> "pc_call"
      [] ty = RESPONSE_FULL_RECOVERY -> "rc_call"
      [] OTHER -> "ex_finish"

\* the thread's own handler positions, by the type switched on
HandlerEntry(ty) ==
    CASE ty = RESPONSE_LOCKDOWN -> "ld_access"
      [] ty = RESPONSE_NETWORK_ISOLATE -> "ni_flush"
      [] ty = RESPONSE_SERVICE_FAILOVER -> "sf_stop"
      [] ty = RESPONSE_EVACUATION -> "ev_unlock"
      [] ty = RESPONSE_BACKUP_ACTIVATE -> "bk_call"
      [] ty = RESPONSE_PARTIAL_CONTAIN -> "pc_call"
      [] ty = RESPONSE_FULL_RECOVERY -> "rc_call"
      [] OTHER -> "ex_finish"

\* the strcpy into status_summary that follows the handler, by type (lines
\* 286 ... 314); the literals of the source are Chinese text, written here as
\* ASCII strings of the same meaning, one per branch as in the source
StatusSummary(ty) ==
    CASE ty = RESPONSE_LOCKDOWN -> "lockdown sequence completed"
      [] ty = RESPONSE_NETWORK_ISOLATE -> "network isolation completed"
      [] ty = RESPONSE_SERVICE_FAILOVER -> "service failover completed"
      [] ty = RESPONSE_EVACUATION -> "evacuation protocol completed"
      [] ty = RESPONSE_BACKUP_ACTIVATE -> "backup activation completed"
      [] ty = RESPONSE_PARTIAL_CONTAIN -> "partial containment completed"
      [] ty = RESPONSE_FULL_RECOVERY -> "full recovery completed"
      [] OTHER -> "unknown response type"

\* the positions of a thread inside a sequence handler
HandlerPCs ==
    {"ld_access", "ld_network", "ld_service", "ld_surveillance",
     "ni_flush", "ni_new", "ni_loop", "ni_apply",
     "sf_stop", "sf_start",
     "ev_unlock", "ev_lights", "ev_power", "ev_comms",
     "bk_call", "pc_call", "rc_call"}

(***************************************************************************)
(* re_execute_integrated (response_executor.c:262-326).                     *)
(***************************************************************************)
\* execute_check without its test of subsystem_state.initialized
execute_check_null_only(t) ==
    /\ pc[t] = "ex_check"
    /\ IF req[t].null
       THEN /\ pc' = Upd(pc, t, "ex_ret")
            /\ ret' = Upd(ret, t, -1)
       ELSE /\ pc' = Upd(pc, t, "ex_lock")
            /\ ret' = ret
    /\ UNCHANGED <<shared, now, ever_initialized, req, loc, calls, failed, observed, stack_valid, child, sent>>

\* line 263: if (!response || !subsystem_state.initialized) return -1;
execute_check(t) ==
    /\ pc[t] = "ex_check"
    /\ IF req[t].null \/ ~initialized
       THEN /\ pc' = Upd(pc, t, "ex_ret")
            /\ ret' = Upd(ret, t, -1)
       ELSE /\ pc' = Upd(pc, t, "ex_lock")
            /\ ret' = ret
    /\ UNCHANGED <<shared, now, ever_initialized, req, loc, calls, failed, observed, stack_valid, child, sent>>

\* line 267: pthread_mutex_lock(&subsystem_state.lock);
execute_lock(t) ==
    /\ pc[t] = "ex_lock"
    /\ \E l \in pthread_mutex_lock(t) : lock' = l
    /\ pc' = Upd(pc, t, "ex_reset")
    /\ UNCHANGED <<initialized, emergency_mode, current_level, last_report, now, ever_initialized,
                   req, loc, calls, failed, ret, observed, stack_valid, child, sent>>

\* line 270: memset(&subsystem_state.last_report, 0, ...)
execute_reset(t) ==
    /\ pc[t] = "ex_reset"
    /\ last_report' = ZeroReport
    /\ pc' = Upd(pc, t, "ex_stamp")
    /\ UNCHANGED <<initialized, emergency_mode, current_level, lock, now, ever_initialized,
                   req, loc, calls, failed, ret, observed, stack_valid, child, sent>>

\* lines 271-272: response_id = response->timestamp; start_time = time(NULL);
\* lines 280-283, 312-313: result = 0; switch (response->type), whose default
\* branch sets result = -99
execute_stamp(t) ==
    /\ pc[t] = "ex_stamp"
    /\ last_report' = [last_report EXCEPT !.response_id = req[t].timestamp,
                                          !.start_time = now]
    /\ sent' = [e \in Workers |->
                  IF pc[e] # "free" /\ sent[e].ts = req[t].timestamp
                  THEN [sent[e] EXCEPT !.shown = TRUE] ELSE sent[e]]
    /\ LET ty == req[t].type
           entry == HandlerEntry(ty)
       IN /\ pc' = Upd(pc, t, entry)
          /\ loc' = Upd(loc, t, [NoLocals EXCEPT
                        !.type = ty,
                        !.result = IF entry = "ex_finish"
                                   THEN RESPONSE_ERROR_CRITICAL_FAILURE ELSE 0])
    /\ calls' = Upd(calls, t, <<>>)
    /\ failed' = Upd(failed, t, {})
    /\ UNCHANGED <<initialized, emergency_mode, current_level, lock, now, ever_initialized,
                   req, ret, observed, stack_valid, child>>

\* the strcpy into status_summary of the branch taken (lines 286 ... 314) and
\* lines 318-320: end_time, overall_result, sub_operations
execute_finish(t) ==
    /\ pc[t] = "ex_finish"
    /\ last_report' = [last_report EXCEPT !.status_summary = StatusSummary(loc[t].type),
                                          !.end_time = now,
                                          !.overall_result = loc[t].result,
                                          !.sub_operations = SubOperations]
    /\ pc' = Upd(pc, t, "ex_unlock")
    /\ UNCHANGED <<initialized, emergency_mode, current_level, lock, now, ever_initialized,
                   req, loc, calls, failed, ret, observed, stack_valid, child, sent>>

\* execute_unlock returning a failure code without releasing the lock
execute_unlock_skipped_on_failure(t) ==
    /\ pc[t] = "ex_unlock"
    /\ lock' = IF loc[t].result = 0 THEN pthread_mutex_unlock(t) ELSE lock
    /\ ret' = Upd(ret, t, loc[t].result)
    /\ pc' = Upd(pc, t, "ex_ret")
    /\ UNCHANGED <<initialized, emergency_mode, current_level, last_report, now,
                   ever_initialized, req, loc, calls, failed, observed, stack_valid,
                   child, sent>>

\* lines 324-325: pthread_mutex_unlock(&subsystem_state.lock); return result;
execute_unlock(t) ==
    /\ pc[t] = "ex_unlock"
    /\ lock' = pthread_mutex_unlock(t)
    /\ ret' = Upd(ret, t, loc[t].result)
    /\ pc' = Upd(pc, t, "ex_ret")
    /\ UNCHANGED <<initialized, emergency_mode, current_level, last_report, now, ever_initialized,
                   req, loc, calls, failed, observed, stack_valid, child, sent>>

(***************************************************************************)
(* The sequence handlers.  A handler step calls one controller; the call's  *)
(* outcome ok is the environment's.                                         *)
(***************************************************************************)
\* what every handler step leaves alone
HandlerFrame ==
    UNCHANGED <<shared, now, ever_initialized, req, ret, observed, stack_valid, child, sent>>

\* the outcomes of a controller call: success or failure
AnyOutcome == BOOLEAN

\* the controllers as the stubs of the source (lines 38-56), which return 0
StubOutcome == {TRUE}

\* LockdownStep returning at the first failing step instead of going on
LockdownStep_abort_on_failure(t, O, at, op, code, keep, next) ==
    /\ pc[t] = at
    /\ \E ok \in O :
          /\ Invoke(t, op, -1, ok)
          /\ loc' = Upd(loc, t, [loc[t] EXCEPT
                        !.total_ops = @ + 1,
                        !.success_ops = IF ok THEN @ + 1 ELSE @,
                        !.result = IF ok \/ keep THEN @ ELSE code])
          /\ pc' = Upd(pc, t, IF ok THEN next ELSE "ex_finish")
    /\ UNCHANGED <<shared, now, ever_initialized, req, ret, observed, stack_valid, child, sent>>

\* one counted step of execute_lockdown_sequence: total_ops++; if the call
\* returns 0, success_ops++; else result = code (the fourth step has no else
\* branch: keep).  O: the outcomes the controller can have.
LockdownStep(t, O, at, op, code, keep, next) ==
    /\ pc[t] = at
    /\ \E ok \in O :
          /\ Invoke(t, op, -1, ok)
          /\ loc' = Upd(loc, t, [loc[t] EXCEPT
                        !.total_ops = @ + 1,
                        !.success_ops = IF ok THEN @ + 1 ELSE @,
                        !.result = IF ok \/ keep THEN @ ELSE code])
    /\ pc' = Upd(pc, t, next)
    /\ HandlerFrame

\* execute_lockdown_sequence (lines 125-171)
lockdown_access(t, O) ==
    LockdownStep(t, O, "ld_access", "lockdown_physical_access", -1, FALSE, "ld_network")

lockdown_network(t, O) ==
    LockdownStep(t, O, "ld_network", "isolate_network_segments", -2, FALSE, "ld_service")

lockdown_service(t, O) ==
    LockdownStep(t, O, "ld_service", "stop_non_critical_services", -3, FALSE, "ld_surveillance")

lockdown_surveillance(t, O) ==
    LockdownStep(t, O, "ld_surveillance", "enhance_surveillance", 0, TRUE, "ex_finish")

execute_lockdown_sequence(t, O) ==
    \/ lockdown_access(t, O)
    \/ lockdown_network(t, O)
    \/ lockdown_service(t, O)
    \/ lockdown_surveillance(t, O)

\* a call whose return value the handler ignores
UncheckedCall(t, at, op, next) ==
    /\ pc[t] = at
    /\ \E ok \in BOOLEAN :
          Invoke(t, op, -1, ok)
    /\ pc' = Upd(pc, t, next)
    /\ loc' = loc
    /\ HandlerFrame

\* a void controller: nothing to return
VoidCall(t, at, op, next) ==
    /\ pc[t] = at
    /\ Invoke(t, op, -1, TRUE)
    /\ pc' = Upd(pc, t, next)
    /\ loc' = loc
    /\ HandlerFrame

\* execute_network_isolation (lines 173-204)
\* lines 181-185: iptables -F, iptables -N, results ignored
isolation_flush(t) == UncheckedCall(t, "ni_flush", "iptables -F", "ni_new")

isolation_new(t) == UncheckedCall(t, "ni_new", "iptables -N", "ni_loop")

\* isolation_loop leaving the loop at the first zone whose rule fails
isolation_loop_break_on_failure(t) ==
    /\ pc[t] = "ni_loop"
    /\ LET i == loc[t].i IN
       IF i >= ZoneBits
       THEN /\ pc' = Upd(pc, t, "ni_apply")
            /\ UNCHANGED <<loc, calls, failed>>
       ELSE IF i \in req[t].target_zones
            THEN \E ok \in BOOLEAN :
                   /\ Invoke(t, "iptables -A", i, ok)
                   /\ pc' = IF ok THEN pc ELSE Upd(pc, t, "ni_apply")
                   /\ loc' = Upd(loc, t, [loc[t] EXCEPT
                                 !.i = i + 1,
                                 !.result = IF ok THEN @ ELSE -1])
            ELSE /\ pc' = pc
                 /\ UNCHANGED <<calls, failed>>
                 /\ loc' = Upd(loc, t, [loc[t] EXCEPT !.i = i + 1])
    /\ UNCHANGED <<shared, now, ever_initialized, req, ret, observed, stack_valid, child, sent>>

\* lines 188-197: one iteration of for (i = 0; i < 32; i++)
isolation_loop(t) ==
    /\ pc[t] = "ni_loop"
    /\ LET i == loc[t].i IN
       IF i >= ZoneBits
       THEN /\ pc' = Upd(pc, t, "ni_apply")
            /\ UNCHANGED <<loc, calls, failed>>
       ELSE /\ pc' = pc
            /\ IF i \in req[t].target_zones
               THEN \E ok \in BOOLEAN :
                      /\ Invoke(t, "iptables -A", i, ok)
                      /\ loc' = Upd(loc, t, [loc[t] EXCEPT
                                    !.i = i + 1,
                                    !.result = IF ok THEN @ ELSE -1])
               ELSE /\ UNCHANGED <<calls, failed>>
                    /\ loc' = Upd(loc, t, [loc[t] EXCEPT !.i = i + 1])
    /\ HandlerFrame

\* line 200: iptables -I FORWARD, result ignored
isolation_apply(t) == UncheckedCall(t, "ni_apply", "iptables -I", "ex_finish")

execute_network_isolation(t) ==
    \/ isolation_flush(t)
    \/ isolation_new(t)
    \/ isolation_loop(t)
    \/ isolation_apply(t)

\* execute_service_failover (lines 206-240)
\* failover_stop going on to the next service when the stop fails
failover_stop_skips_backup(t) ==
    /\ pc[t] = "sf_stop"
    /\ IF loc[t].i >= Len(critical_services)
       THEN /\ pc' = Upd(pc, t, "ex_finish")
            /\ UNCHANGED <<loc, calls, failed>>
       ELSE \E ok \in BOOLEAN :
              /\ Invoke(t, "systemctl stop", loc[t].i, ok)
              /\ pc' = IF ok THEN Upd(pc, t, "sf_start") ELSE pc
              /\ loc' = Upd(loc, t, [loc[t] EXCEPT
                            !.i = IF ok THEN @ ELSE @ + 1,
                            !.result = IF ok THEN @ ELSE -1])
    /\ UNCHANGED <<shared, now, ever_initialized, req, ret, observed, stack_valid, child, sent>>

\* lines 215-224: systemctl stop critical_services[i]
failover_stop(t) ==
    /\ pc[t] = "sf_stop"
    /\ IF loc[t].i >= Len(critical_services)
       THEN /\ pc' = Upd(pc, t, "ex_finish")
            /\ UNCHANGED <<loc, calls, failed>>
       ELSE /\ pc' = Upd(pc, t, "sf_start")
            /\ \E ok \in BOOLEAN :
                  /\ Invoke(t, "systemctl stop", loc[t].i, ok)
                  /\ loc' = Upd(loc, t, [loc[t] EXCEPT !.result = IF ok THEN @ ELSE -1])
    /\ HandlerFrame

\* lines 226-236: systemctl start critical_services[i]-backup; usleep; i++
failover_start(t) ==
    /\ pc[t] = "sf_start"
    /\ \E ok \in BOOLEAN :
          /\ Invoke(t, "systemctl start backup", loc[t].i, ok)
          /\ loc' = Upd(loc, t, [loc[t] EXCEPT
                        !.i = @ + 1,
                        !.result = IF ok THEN @ ELSE -2])
    /\ pc' = Upd(pc, t, "sf_stop")
    /\ HandlerFrame

execute_service_failover(t) ==
    \/ failover_stop(t)
    \/ failover_start(t)

\* execute_evacuation_protocol (lines 242-258)
\* evacuation_unlock returning when the routes cannot be unlocked
evacuation_unlock_abort(t) ==
    /\ pc[t] = "ev_unlock"
    /\ \E ok \in BOOLEAN :
          /\ Invoke(t, "unlock_evacuation_routes", -1, ok)
          /\ loc' = Upd(loc, t, [loc[t] EXCEPT !.result = IF ok THEN @ ELSE -1])
          /\ pc' = Upd(pc, t, IF ok THEN "ev_lights" ELSE "ex_finish")
    /\ UNCHANGED <<shared, now, ever_initialized, req, ret, observed, stack_valid, child, sent>>

evacuation_unlock(t) ==
    /\ pc[t] = "ev_unlock"
    /\ \E ok \in BOOLEAN :
          /\ Invoke(t, "unlock_evacuation_routes", -1, ok)
          /\ loc' = Upd(loc, t, [loc[t] EXCEPT !.result = IF ok THEN @ ELSE -1])
    /\ pc' = Upd(pc, t, "ev_lights")
    /\ HandlerFrame

evacuation_lights(t) == VoidCall(t, "ev_lights", "activate_evacuation_lights", "ev_power")

evacuation_power(t) == VoidCall(t, "ev_power", "power_down_non_essential", "ev_comms")

evacuation_comms(t) == VoidCall(t, "ev_comms", "enable_emergency_comms", "ex_finish")

execute_evacuation_protocol(t) ==
    \/ evacuation_unlock(t)
    \/ evacuation_lights(t)
    \/ evacuation_power(t)
    \/ evacuation_comms(t)

\* the single-call branches (lines 300-311): result = the controller's return
\* value, 0 or a failure code of the controller's
ControllerResults == {0, -1}

SingleCall(t, at, op) ==
    /\ pc[t] = at
    /\ \E r \in ControllerResults :
          /\ Invoke(t, op, -1, r = 0)
          /\ loc' = Upd(loc, t, [loc[t] EXCEPT !.result = r])
    /\ pc' = Upd(pc, t, "ex_finish")
    /\ HandlerFrame

activate_emergency_backups(t) == SingleCall(t, "bk_call", "activate_emergency_backups")

execute_partial_containment(t) == SingleCall(t, "pc_call", "execute_partial_containment")

execute_recovery_sequence(t) == SingleCall(t, "rc_call", "execute_recovery_sequence")

(***************************************************************************)
(* re_init_integrated (lines 350-375).  calls[t] records the readiness      *)
(* checks the call performs.                                               *)
(***************************************************************************)
InitFrame ==
    UNCHANGED <<emergency_mode, current_level, last_report, now, ever_initialized, req, loc,
                observed, stack_valid, child, sent>>

\* init_check without its test of subsystem_state.initialized
init_check_unconditional(t) ==
    /\ pc[t] = "idle"
    /\ pc' = Upd(pc, t, "in_mutex")
    /\ UNCHANGED <<shared, now, ever_initialized, req, loc, calls, failed, ret, observed, stack_valid,
                   child, sent>>

\* line 351: if (subsystem_state.initialized) return 0;
init_check(t) ==
    /\ pc[t] = "idle"
    /\ IF initialized
       THEN /\ pc' = Upd(pc, t, "in_ret")
            /\ ret' = Upd(ret, t, 0)
       ELSE /\ pc' = Upd(pc, t, "in_mutex")
            /\ ret' = ret
    /\ UNCHANGED <<initialized, lock, calls, failed>>
    /\ InitFrame

\* line 355: if (pthread_mutex_init(&subsystem_state.lock, NULL) != 0) return -1;
init_mutex(t) ==
    /\ pc[t] = "in_mutex"
    /\ \E ok \in BOOLEAN :
          /\ Invoke(t, "pthread_mutex_init", -1, ok)
          /\ IF ok
             THEN /\ lock' = pthread_mutex_init
                  /\ pc' = Upd(pc, t, "in_checks")
                  /\ ret' = ret
             ELSE /\ lock' = lock
                  /\ pc' = Upd(pc, t, "in_ret")
                  /\ ret' = Upd(ret, t, -1)
    /\ initialized' = initialized
    /\ InitFrame

\* the readiness checks in the order the code runs them
InitChecks == <<"check_hardware_readiness", "init_network_subsystem", "init_access_control">>

\* the code returned when the k-th check fails (lines 358, 362, 366)
InitFailure(k) == -(k + 1)

\* lines 356-374: the checks run in order up to the first that fails (n of
\* them), which returns its code; when all pass, initialized = true,
\* emergency_mode = false, current_level = 0 and the call returns 0
init_checks(t) ==
    /\ pc[t] = "in_checks"
    /\ \E n \in 1..Len(InitChecks), ok \in BOOLEAN :
          /\ (~ok \/ n = Len(InitChecks))
          /\ calls' = Upd(calls, t, calls[t] \o [k \in 1..n |-> Call(InitChecks[k], -1)])
          /\ failed' = Upd(failed, t, IF ok THEN failed[t] ELSE failed[t] \cup {InitChecks[n]})
          /\ initialized' = (ok \/ initialized)
          /\ emergency_mode' = IF ok THEN FALSE ELSE emergency_mode
          /\ current_level' = IF ok THEN 0 ELSE current_level
          /\ ret' = Upd(ret, t, IF ok THEN 0 ELSE InitFailure(n))
          /\ ever_initialized' = (ok \/ ever_initialized)
    /\ pc' = Upd(pc, t, "in_ret")
    /\ UNCHANGED <<last_report, lock, now, req, loc, observed, stack_valid,
                   child, sent>>

\* re_init_integrated() called again as soon as it has returned: line 351 of
\* the next call.  calls[t] goes on recording, so it holds the checks of the
\* consecutive calls together.
init_again(t) ==
    /\ pc[t] = "in_ret"
    /\ initialized \/ Len(CallsOf(t, "pthread_mutex_init")) < MaxInitCalls
    /\ IF initialized
       THEN /\ pc' = pc
            /\ ret' = Upd(ret, t, 0)
       ELSE /\ pc' = Upd(pc, t, "in_mutex")
            /\ ret' = ret
    /\ UNCHANGED <<initialized, lock, calls, failed>>
    /\ InitFrame

re_init_integrated(t) ==
    \/ init_check(t)
    \/ init_mutex(t)
    \/ init_checks(t)

(***************************************************************************)
(* re_cleanup_resources (lines 385-397).                                    *)
(***************************************************************************)
\* cleanup_check without its test of subsystem_state.initialized
cleanup_check_unconditional(t) ==
    /\ pc[t] = "idle"
    /\ pc' = Upd(pc, t, "cl_destroy")
    /\ UNCHANGED <<shared, now, ever_initialized, req, loc, calls, failed, ret, observed, stack_valid,
                   child, sent>>

\* line 388: if (subsystem_state.initialized) {
cleanup_check(t) ==
    /\ pc[t] = "idle"
    /\ pc' = Upd(pc, t, IF initialized THEN "cl_destroy" ELSE "cl_ret")
    /\ UNCHANGED <<shared, now, ever_initialized, req, loc, calls, failed, ret, observed, stack_valid,
                   child, sent>>

\* lines 389-392: restore_normal_access(); cleanup_network_rules();
\* stop_emergency_services(); pthread_mutex_destroy(&subsystem_state.lock);
cleanup_destroy(t) ==
    /\ pc[t] = "cl_destroy"
    /\ \E l \in pthread_mutex_destroy : lock' = l
    /\ calls' = Upd(calls, t, calls[t] \o
                    <<Call("restore_normal_access", -1),
                      Call("cleanup_network_rules", -1),
                      Call("stop_emergency_services", -1),
                      Call("pthread_mutex_destroy", -1)>>)
    /\ pc' = Upd(pc, t, "cl_clear")
    /\ UNCHANGED <<initialized, emergency_mode, current_level, last_report, now, ever_initialized,
                   req, loc, failed, ret, observed, stack_valid, child, sent>>

\* cleanup_clear leaving emergency mode as well
cleanup_clear_resets_emergency(t) ==
    /\ pc[t] = "cl_clear"
    /\ initialized' = FALSE
    /\ emergency_mode' = FALSE
    /\ current_level' = 0
    /\ pc' = Upd(pc, t, "cl_ret")
    /\ UNCHANGED <<last_report, lock, now, ever_initialized,
                   req, loc, calls, failed, ret, observed, stack_valid, child, sent>>

\* line 393: subsystem_state.initialized = false;
cleanup_clear(t) ==
    /\ pc[t] = "cl_clear"
    /\ initialized' = FALSE
    /\ pc' = Upd(pc, t, "cl_ret")
    /\ UNCHANGED <<emergency_mode, current_level, last_report, lock, now, ever_initialized,
                   req, loc, calls, failed, ret, observed, stack_valid, child, sent>>

re_cleanup_resources(t) ==
    \/ cleanup_check(t)
    \/ cleanup_destroy(t)
    \/ cleanup_clear(t)

(***************************************************************************)
(* re_emergency_sequence (lines 328-348) and emergency_thread_wrapper       *)
(* (lines 118-122).                                                        *)
(***************************************************************************)
\* lines 334-342: the emergency_response local of the call
EmergencyRequest ==
    Request(RESPONSE_LOCKDOWN, EmergencySeverity, AllZones, EmergencyDuration, now)

NoSent == [ts |-> 0, shown |-> FALSE]

\* lines 331-332: emergency_mode = true; current_level = emergency_level;
emergency_flags(t) ==
    /\ pc[t] = "idle"
    /\ \E level \in 1..MaxLevel :
          /\ emergency_mode' = TRUE
          /\ current_level' = level
    /\ pc' = Upd(pc, t, "em_create")
    /\ UNCHANGED <<initialized, last_report, lock, now, ever_initialized, req, loc, calls, failed, ret,
                   observed, stack_valid, child, sent>>

\* lines 334-346: build emergency_response on the stack and
\* pthread_create(&emergency_thread, NULL, emergency_thread_wrapper,
\* &emergency_response).  The new thread starts at the first statement of
\* re_execute_integrated with response pointing into this call's frame.
\* With no thread slot left pthread_create fails, which the code ignores.
emergency_create(t) ==
    /\ pc[t] = "em_create"
    /\ req' = IF \E e \in Workers : pc[e] = "free"
              THEN LET e == CHOOSE w \in Workers : pc[w] = "free"
                   IN [req EXCEPT ![t] = EmergencyRequest, ![e] = EmergencyRequest]
              ELSE Upd(req, t, EmergencyRequest)
    /\ IF \E e \in Workers : pc[e] = "free"
       THEN LET e == CHOOSE w \in Workers : pc[w] = "free"
            IN /\ pc' = [pc EXCEPT ![t] = "em_ret", ![e] = "ex_check"]
               /\ stack_valid' = Upd(stack_valid, e, TRUE)
               /\ child' = Upd(child, t, e)
               /\ sent' = Upd(sent, e, [ts |-> now, shown |-> FALSE])
       ELSE /\ pc' = Upd(pc, t, "em_ret")
            /\ UNCHANGED <<stack_valid, child, sent>>
    /\ UNCHANGED <<shared, now, ever_initialized, loc, calls, failed, ret, observed>>

\* emergency_return joining the thread it created instead of detaching it
emergency_return_join(t) ==
    /\ pc[t] = "em_ret"
    /\ child[t] = NoThread
    /\ pc' = Upd(pc, t, "idle")
    /\ req' = Upd(req, t, NullRequest)
    /\ UNCHANGED <<shared, now, ever_initialized, loc, calls, failed, ret, observed, stack_valid,
                   child, sent>>

\* lines 347-348: pthread_detach(emergency_thread); return.  The frame that
\* holds emergency_response is gone.
emergency_return(t) ==
    /\ pc[t] = "em_ret"
    /\ stack_valid' = IF child[t] \in Workers
                      THEN Upd(stack_valid, child[t], FALSE) ELSE stack_valid
    /\ pc' = Upd(pc, t, "idle")
    /\ req' = Upd(req, t, NullRequest)
    /\ child' = Upd(child, t, NoThread)
    /\ UNCHANGED <<shared, now, ever_initialized, loc, calls, failed, ret, observed, sent>>

re_emergency_sequence(t) ==
    \/ emergency_flags(t)
    \/ emergency_create(t)
    \/ emergency_return(t)

\* The storage of a returned call's emergency_response is reused by whatever
\* runs next on that stack: a worker still pointing to it reads what was
\* written there.
StackReuse(e) ==
    /\ pc[e] # "free"
    /\ ~stack_valid[e]
    /\ \E g \in GarbageRequests \ {req[e]} : req' = Upd(req, e, g)
    /\ UNCHANGED <<shared, now, ever_initialized, pc, loc, calls, failed, ret, observed, stack_valid,
                   child, sent>>

\* lines 120-121: re_execute_integrated has returned; the detached thread ends
emergency_thread_exit(e) ==
    /\ e \in Workers
    /\ pc[e] = "ex_ret"
    /\ pc' = Upd(pc, e, "free")
    /\ req' = Upd(req, e, NullRequest)
    /\ loc' = Upd(loc, e, NoLocals)
    /\ calls' = Upd(calls, e, <<>>)
    /\ failed' = Upd(failed, e, {})
    /\ ret' = Upd(ret, e, 0)
    /\ stack_valid' = Upd(stack_valid, e, FALSE)
    /\ sent' = Upd(sent, e, NoSent)
    /\ child' = [c \in Callers |-> IF child[c] = e THEN NoThread ELSE child[c]]
    /\ UNCHANGED <<shared, now, ever_initialized, observed>>

(***************************************************************************)
(* re_get_last_report (lines 377-379) and the caller's read through the     *)
(* pointer it returns; re_subsystem_ready (lines 381-383).                  *)
(***************************************************************************)
re_get_last_report(t) ==
    /\ pc[t] = "idle"
    /\ observed' = Upd(observed, t, last_report)
    /\ pc' = Upd(pc, t, "rd_ret")
    /\ UNCHANGED <<shared, now, ever_initialized, req, loc, calls, failed, ret, stack_valid, child, sent>>

ReadyFrame ==
    UNCHANGED <<shared, now, ever_initialized, req, loc, observed, stack_valid, child, sent>>

\* subsystem_state.initialized && ...
ready_initialized(t) ==
    /\ pc[t] = "idle"
    /\ IF initialized
       THEN /\ pc' = Upd(pc, t, "rdy_mode")
            /\ ret' = ret
       ELSE /\ pc' = Upd(pc, t, "rdy_ret")
            /\ ret' = Upd(ret, t, 0)
    /\ UNCHANGED <<calls, failed>>
    /\ ReadyFrame

\* ready_mode without its test of subsystem_state.emergency_mode
ready_mode_ignores_emergency(t) ==
    /\ pc[t] = "rdy_mode"
    /\ \E ok \in BOOLEAN :
          /\ Invoke(t, "check_hardware_readiness", -1, ok)
          /\ ret' = Upd(ret, t, IF ok THEN 1 ELSE 0)
    /\ pc' = Upd(pc, t, "rdy_ret")
    /\ UNCHANGED <<shared, now, ever_initialized, req, loc, observed, stack_valid, child, sent>>

\* ... !subsystem_state.emergency_mode && check_hardware_readiness()
ready_mode(t) ==
    /\ pc[t] = "rdy_mode"
    /\ IF emergency_mode
       THEN /\ ret' = Upd(ret, t, 0)
            /\ UNCHANGED <<calls, failed>>
       ELSE \E ok \in BOOLEAN :
              /\ Invoke(t, "check_hardware_readiness", -1, ok)
              /\ ret' = Upd(ret, t, IF ok THEN 1 ELSE 0)
    /\ pc' = Upd(pc, t, "rdy_ret")
    /\ ReadyFrame

re_subsystem_ready(t) ==
    \/ ready_initialized(t)
    \/ ready_mode(t)

(***************************************************************************)
(* The application threads: calls and returns.                              *)
(***************************************************************************)
ReturnPCs == {"ex_ret", "in_ret", "cl_ret", "rd_ret", "rdy_ret"}

\* re_execute_integrated(&request)
CallExecute(t, T) ==
    /\ pc[t] = "idle"
    /\ \E r \in CallerRequests(T, now) : req' = Upd(req, t, r)
    /\ pc' = Upd(pc, t, "ex_check")
    /\ UNCHANGED <<shared, now, ever_initialized, loc, calls, failed, ret, observed, stack_valid, child, sent>>

\* the call has returned; its frame and the caller's use of the result end
Return(t) ==
    /\ pc[t] \in ReturnPCs
    /\ pc' = Upd(pc, t, "idle")
    /\ req' = Upd(req, t, NullRequest)
    /\ loc' = Upd(loc, t, NoLocals)
    /\ calls' = Upd(calls, t, <<>>)
    /\ failed' = Upd(failed, t, {})
    /\ ret' = Upd(ret, t, 0)
    /\ observed' = Upd(observed, t, ZeroReport)
    /\ UNCHANGED <<shared, now, ever_initialized, stack_valid, child, sent>>

\* time(NULL) moves on
Tick ==
    /\ now < MaxTime
    /\ now' = now + 1
    /\ UNCHANGED <<shared, ever_initialized, pc, req, loc, calls, failed, ret, observed, stack_valid, child, sent>>

\* re_execute_integrated around the handler call
execute_body(t) ==
    \/ execute_check(t)
    \/ execute_lock(t)
    \/ execute_reset(t)
    \/ execute_stamp(t)
    \/ execute_finish(t)
    \/ execute_unlock(t)

\* the handlers of the switch's branches
execute_handlers(t) ==
    \/ execute_lockdown_sequence(t, AnyOutcome)
    \/ execute_network_isolation(t)
    \/ execute_service_failover(t)
    \/ execute_evacuation_protocol(t)
    \/ activate_emergency_backups(t)
    \/ execute_partial_containment(t)
    \/ execute_recovery_sequence(t)

Init ==
    /\ initialized = FALSE
    /\ emergency_mode = FALSE
    /\ current_level = 0
    /\ last_report = ZeroReport
    /\ lock = ZeroLock
    /\ now = 1
    /\ pc = [t \in Threads |-> IF t \in Callers THEN "idle" ELSE "free"]
    /\ req = [t \in Threads |-> NullRequest]
    /\ loc = [t \in Threads |-> NoLocals]
    /\ calls = [t \in Threads |-> <<>>]
    /\ failed = [t \in Threads |-> {}]
    /\ ret = [t \in Threads |-> 0]
    /\ observed = [t \in Callers |-> ZeroReport]
    /\ stack_valid = [e \in Workers |-> FALSE]
    /\ child = [t \in Callers |-> NoThread]
    /\ sent = [e \in Workers |-> NoSent]
    /\ ever_initialized = FALSE

(***************************************************************************)
(* Spec: an operator thread that makes the lifecycle, emergency and polling *)
(* calls, a client thread that dispatches requests of the types ConcTypes,  *)
(* and the emergency threads, interleaved statement by statement within     *)
(* one second of time(NULL), with the controllers of the Lockdown handler   *)
(* behaving as the stubs of the source.                                     *)
(***************************************************************************)
Operator == "c1"
Client == "c2"

Next ==
    \/ re_init_integrated(Operator)
    \/ re_cleanup_resources(Operator)
    \/ re_emergency_sequence(Operator)
    \/ re_get_last_report(Operator)
    \/ re_subsystem_ready(Operator)
    \/ CallExecute(Client, ConcTypes)
    \/ \E t \in Callers : Return(t)
    \/ \E t \in Threads : execute_body(t) \/ execute_lockdown_sequence(t, StubOutcome)
    \/ \E e \in Workers : emergency_thread_exit(e) \/ StackReuse(e)

Spec == Init /\ [][Next]_vars

(***************************************************************************)
(* SeqSpec: one application thread calling the API sequentially as time     *)
(* passes, with requests of every type and every controller outcome.        *)
(***************************************************************************)
SeqNext ==
    \/ CallExecute(Operator, TypeValues)
    \/ execute_body(Operator)
    \/ execute_handlers(Operator)
    \/ re_init_integrated(Operator)
    \/ init_again(Operator)
    \/ re_cleanup_resources(Operator)
    \/ re_get_last_report(Operator)
    \/ re_subsystem_ready(Operator)
    \/ Return(Operator)
    \/ Tick

SeqSpec == Init /\ [][SeqNext]_vars

(***************************************************************************)
(* Properties.                                                             *)
(***************************************************************************)
\* a thread between its pthread_mutex_lock and the end of its handler's work:
\* in the handler, writing the report, or about to unlock
AfterHandlerPCs == {"ex_finish", "ex_unlock"}

\* the types the switch has a sequence handler for
HandledTypes ==
    {RESPONSE_LOCKDOWN, RESPONSE_NETWORK_ISOLATE, RESPONSE_SERVICE_FAILOVER,
     RESPONSE_EVACUATION, RESPONSE_BACKUP_ACTIVATE, RESPONSE_PARTIAL_CONTAIN,
     RESPONSE_FULL_RECOVERY}

\* the operations of calls[t], in call order
Ops(t) == [k \in 1..Len(calls[t]) |-> calls[t][k].op]

\* C1: at most one dispatch (ordinary or emergency) runs its sequence handler
\* at a time: while a thread is in its handler, no other thread is in its
\* handler, writing its report or still holding the lock it took.
C1_OneDispatchAtATime ==
    \A t, u \in Threads :
        (t # u /\ pc[t] \in HandlerPCs) => pc[u] \notin (HandlerPCs \cup AfterHandlerPCs)

\* a report no dispatch is in the middle of writing: the zeroed initial report,
\* or one that carries the fields a dispatch writes last
CompleteReport(r) ==
    \/ r = ZeroReport
    \/ (r.sub_operations = SubOperations /\ r.status_summary # "")

\* C2: what a reader gets through re_get_last_report() is a complete report,
\* never one a dispatch has only partly written.
C2_ReaderSeesCompleteReport ==
    \A t \in Callers : pc[t] = "rd_ret" => CompleteReport(observed[t])

\* C3: a dispatch that finds the state uninitialized (or its request absent)
\* returns -1 at once: it does not touch the lock, calls no controller and
\* leaves last_report as it is.
C3_RejectedDispatchTouchesNothing ==
    [][\A t \in Threads :
         (pc[t] = "ex_check" /\ pc'[t] # "ex_check" /\ (req[t].null \/ ~initialized))
         => /\ pc'[t] = "ex_ret"
            /\ ret'[t] = -1
            /\ lock' = lock
            /\ last_report' = last_report
            /\ calls'[t] = <<>>]_vars

\* C3 witness: the client's dispatch of a present request was rejected because
\* the state is not initialized
C3_Witness ==
    /\ pc[Client] = "ex_ret"
    /\ ret[Client] = -1
    /\ ~req[Client].null
    /\ ~initialized
    /\ calls[Client] = <<>>

\* C4: once the dispatch that re_emergency_sequence scheduled has returned,
\* last_report has carried the timestamp of the request the trigger built as
\* its response_id.
C4_EmergencyReportAppears ==
    \A e \in Workers : pc[e] = "ex_ret" => sent[e].shown

\* the positions of a thread inside re_emergency_sequence
EmergencyPCs == {"em_create", "em_ret"}

\* C5: re_emergency_sequence can always be called and every step of it can
\* always be taken, whatever the lock's state, and the caller never owns the
\* lock: it waits neither for the lock nor for the thread it creates.
C5_TriggerNeverWaits ==
    \A t \in Callers :
        /\ pc[t] = "idle" => ENABLED emergency_flags(t)
        /\ pc[t] \in EmergencyPCs =>
              (lock.owner # t /\ ENABLED re_emergency_sequence(t))

\* C5 witness: the trigger has returned while the client's dispatch holds the
\* lock in its handler and the Lockdown it scheduled still waits for the lock
C5_Witness ==
    \E e \in Workers :
        /\ pc[Operator] = "idle"
        /\ emergency_mode
        /\ pc[e] = "ex_lock"
        /\ ~stack_valid[e]
        /\ lock.owner = Client
        /\ pc[Client] \in HandlerPCs

\* the positions whose next step reads a field of *response
RequestReadPCs == {"ex_stamp"} \cup HandlerPCs

\* C6: every read of the emergency request by the thread it was handed to
\* happens while the re_emergency_sequence call that owns the storage has not
\* returned.
C6_RequestOutlivesDispatch ==
    [][\A e \in Workers :
         (pc[e] \in RequestReadPCs /\ pc'[e] # pc[e]) => stack_valid[e]]_vars

\* the positions at which calls[t] failed, in call order
FailedPositions(t) == {k \in 1..Len(calls[t]) : calls[t][k].op \in failed[t]}

\* the code of the step at position k: a distinct negative value per position
StepCode(k) == -k

\* the code first-failure-wins asks of a handler run: 0, or the code of the
\* first step that failed
FirstFailureCode(t) ==
    IF FailedPositions(t) = {} THEN 0
    ELSE StepCode(CHOOSE k \in FailedPositions(t) : \A j \in FailedPositions(t) : k <= j)

\* C7: the Lockdown handler returns the code of the first step that failed.
C7_FirstFailureWins ==
    \A t \in Threads :
        (pc[t] = "ex_finish" /\ loc[t].type = RESPONSE_LOCKDOWN)
        => loc[t].result = FirstFailureCode(t)

\* C8: a dispatch with a sequence handler returns 0, and records
\* overall_result 0, exactly when no step failed; otherwise both are negative.
C8_ZeroIffAllStepsSucceeded ==
    \A t \in Threads :
        (pc[t] = "ex_ret" /\ loc[t].type \in HandledTypes)
        => /\ (ret[t] = 0) <=> (failed[t] = {})
           /\ (last_report.overall_result = 0) <=> (failed[t] = {})
           /\ failed[t] # {} => (ret[t] < 0 /\ last_report.overall_result < 0)

\* the four controller operations of a Lockdown, in order
LockdownOrder ==
    <<"lockdown_physical_access", "isolate_network_segments",
      "stop_non_critical_services", "enhance_surveillance">>

\* C9: a Lockdown dispatch calls the four controller operations once each, in
\* the fixed order, whatever their outcomes.
C9_LockdownAttemptsAllSteps ==
    \A t \in Threads :
        (loc[t].type = RESPONSE_LOCKDOWN /\ pc[t] \in AfterHandlerPCs \cup {"ex_ret"})
        => Ops(t) = LockdownOrder

\* C9 witness: a Lockdown whose first three steps all failed has gone on to
\* the fourth
C9_Witness ==
    /\ pc[Operator] = "ex_finish"
    /\ loc[Operator].type = RESPONSE_LOCKDOWN
    /\ failed[Operator] = {"lockdown_physical_access", "isolate_network_segments",
                           "stop_non_critical_services"}
    /\ Len(calls[Operator]) = 4

\* C10: the report a Lockdown publishes counts the controller steps that
\* succeeded: 4 with overall_result 0 when all succeed, 3 with the access
\* step's code when only the access lock fails.
C10_SuccessCountPublished ==
    \A t \in Threads :
        (pc[t] = "ex_unlock" /\ loc[t].type = RESPONSE_LOCKDOWN)
        => /\ last_report.success_count = Len(LockdownOrder) - Cardinality(failed[t])
           /\ failed[t] = {} => last_report.overall_result = 0
           /\ failed[t] = {"lockdown_physical_access"} => last_report.overall_result = -1

\* the positions of a dispatch whose handler has returned
HandlerDonePCs == AfterHandlerPCs \cup {"ex_ret"}

\* the bits of a zone mask in ascending order, as the per-zone calls they ask for
ZoneCallsAscending(mask) ==
    SelectSeq([k \in 1..ZoneBits |-> Call("iptables -A", k - 1)],
              LAMBDA c : c.arg \in mask)

\* C11: a NetworkIsolate dispatch issues one per-zone rule for each set bit of
\* target_zones, in ascending bit order, none for a clear bit, and then one
\* activation of the chain as its last call, whatever the zone calls returned.
C11_ZoneFanOut ==
    \A t \in Threads :
        (loc[t].type = RESPONSE_NETWORK_ISOLATE /\ pc[t] \in HandlerDonePCs)
        => /\ CallsOf(t, "iptables -A") = ZoneCallsAscending(req[t].target_zones)
           /\ Len(CallsOf(t, "iptables -I")) = 1
           /\ calls[t][Len(calls[t])].op = "iptables -I"

\* C11 witness: a NetworkIsolate of zones {0, 5, 9} in which a zone rule failed
\* has issued its three zone rules and the activation
C11_Witness ==
    /\ pc[Operator] = "ex_finish"
    /\ loc[Operator].type = RESPONSE_NETWORK_ISOLATE
    /\ req[Operator].target_zones = {0, 5, 9}
    /\ "iptables -A" \in failed[Operator]
    /\ loc[Operator].result = -1
    /\ Len(CallsOf(Operator, "iptables -A")) = 3

\* C12: when re_cleanup_resources has returned the state is uninitialized;
\* while it is uninitialized every dispatch that reaches its check returns -1,
\* a further re_cleanup_resources call goes straight to its return with no
\* controller call and subsystem_state (the lock included) untouched, and only
\* a re_init_integrated call that returns 0 makes the state initialized again.
C12_CleanupThenRejected ==
    [][\A t \in Threads :
         /\ (pc[t] = "cl_ret" => ~initialized)
         /\ (~initialized /\ pc[t] = "ex_check" /\ pc'[t] # "ex_check")
            => (pc'[t] = "ex_ret" /\ ret'[t] = -1)
         /\ (~initialized /\ pc[t] = "idle" /\ pc'[t] \in {"cl_destroy", "cl_ret"})
            => (pc'[t] = "cl_ret" /\ calls'[t] = <<>> /\ shared' = shared)
         /\ (~initialized /\ initialized' /\ pc'[t] # pc[t])
            => (pc[t] = "in_checks" /\ pc'[t] = "in_ret" /\ ret'[t] = 0)]_vars

\* C12 witness: a re_cleanup_resources call on a state an earlier cleanup left
\* (the lock destroyed, no init since) has returned without a controller call
C12_Witness ==
    /\ pc[Operator] = "cl_ret"
    /\ calls[Operator] = <<>>
    /\ ~initialized
    /\ lock.st = "destroyed"

\* the positions of a thread inside re_init_integrated
InitPCs == {"in_mutex", "in_checks", "in_ret"}

\* the readiness checks of re_init_integrated: lock creation, hardware,
\* network, access control
InitOps == {"pthread_mutex_init"} \cup {InitChecks[k] : k \in 1..Len(InitChecks)}

\* C13 as stated: consecutive re_init_integrated calls with no cleanup between
\* them perform each readiness check at most once in total.
C13_ChecksAtMostOnce ==
    \A t \in Callers :
        pc[t] \in InitPCs => \A op \in InitOps : Len(CallsOf(t, op)) <= 1

\* C13 amended: a re_init_integrated call on an initialized state (so the
\* second of two consecutive calls whose first succeeded) returns 0 without
\* running any check and leaves initialized, emergency_mode, current_level,
\* last_report and the lock as they are.
C13_InitOnInitializedIsNoOp ==
    [][\A t \in Callers :
         (initialized /\ pc[t] \in {"idle", "in_ret"} /\ pc'[t] \in InitPCs)
         => /\ pc'[t] = "in_ret"
            /\ ret'[t] = 0
            /\ calls'[t] = calls[t]
            /\ shared' = shared]_vars

\* C13 witness: re_init_integrated called on an initialized state has returned
\* 0 and has run no check
C13_Witness ==
    /\ pc[Operator] = "in_ret"
    /\ initialized
    /\ ret[Operator] = 0
    /\ calls[Operator] = <<>>

\* the check whose failure makes re_init_integrated return code r
FailedCheck(r) == CHOOSE k \in 1..Len(InitChecks) : InitFailure(k) = r

\* the codes of the three readiness checks
InitFailureCodes == {InitFailure(k) : k \in 1..Len(InitChecks)}

\* C14: when re_init_integrated has returned the code of a failed hardware,
\* network or access-control check, the codes of the three checks being
\* distinct, the call ran the checks in order up to the failed one and no
\* further, initialized is false, and the lock object the call created is not
\* left in effect.
C14_FailedInitLeavesNothing ==
    /\ Cardinality(InitFailureCodes) = Len(InitChecks)
    /\ \A t \in Callers :
          (pc[t] = "in_ret" /\ ret[t] \in InitFailureCodes)
          => LET k == FailedCheck(ret[t])
                 n == Len(calls[t])
             IN /\ n >= k + 1
                /\ SubSeq(Ops(t), n - k, n) = <<"pthread_mutex_init">> \o SubSeq(InitChecks, 1, k)
                /\ InitChecks[k] \in failed[t]
                /\ ~initialized
                /\ lock.st # "valid"

\* C15: a dispatch of a present request on an initialized state that has
\* returned: if the type has no sequence handler it called no controller,
\* returned -99, the published report carries -99 and the request's timestamp,
\* and the lock is free; if the type has a handler it did not return -99.
C15_UnknownTypeCriticalFailure ==
    \A t \in Callers :
        (pc[t] = "ex_ret" /\ ~req[t].null /\ initialized)
        => IF req[t].type \in HandledTypes
           THEN ret[t] # RESPONSE_ERROR_CRITICAL_FAILURE
           ELSE /\ ret[t] = RESPONSE_ERROR_CRITICAL_FAILURE
                /\ calls[t] = <<>>
                /\ last_report.overall_result = RESPONSE_ERROR_CRITICAL_FAILURE
                /\ last_report.response_id = req[t].timestamp
                /\ lock.owner = NoThread

\* C15 witness: a RESPONSE_COMMS_PRIORITY dispatch has returned -99
C15_Witness ==
    /\ pc[Operator] = "ex_ret"
    /\ initialized
    /\ req[Operator].type = RESPONSE_COMMS_PRIORITY
    /\ ret[Operator] = RESPONSE_ERROR_CRITICAL_FAILURE
    /\ last_report.status_summary = StatusSummary(RESPONSE_COMMS_PRIORITY)

\* the hardware check of the thread's re_subsystem_ready call was made and passed
HardwareCheckPassed(t) ==
    /\ Ops(t) = <<"check_hardware_readiness">>
    /\ failed[t] = {}

\* C16: when re_subsystem_ready has returned, it returned true exactly when
\* initialized is true, emergency_mode is false and the hardware check of the
\* call passed; no step of the call changes subsystem_state.
C16_ReadyIffAllThree ==
    [][\A t \in Callers :
         /\ pc[t] = "rdy_ret" =>
               ((ret[t] = 1) <=> (initialized /\ ~emergency_mode /\ HardwareCheckPassed(t)))
         /\ pc[t] = "rdy_ret" => ret[t] \in {0, 1}
         /\ (pc'[t] # pc[t] /\ pc'[t] \in {"rdy_mode", "rdy_ret"}) => shared' = shared]_vars

\* C16 witness: re_subsystem_ready has returned true on an initialized state
\* outside emergency mode while the client's dispatch is in its handler
C16_Witness ==
    /\ pc[Operator] = "rdy_ret"
    /\ ret[Operator] = 1
    /\ initialized
    /\ ~emergency_mode
    /\ pc[Client] \in HandlerPCs

\* the calls of a service failover over the whole list: for each service in
\* list order (by index), stop the primary, then start its backup
FailoverCalls ==
    [k \in 1..(2 * Len(critical_services)) |->
        IF k % 2 = 1 THEN Call("systemctl stop", (k - 1) \div 2)
                     ELSE Call("systemctl start backup", (k - 1) \div 2)]

\* C17: a ServiceFailover dispatch that has left its handler made exactly the
\* calls stop primary, start backup for each service of the list in order,
\* whatever their outcomes (so no restart of a primary, and no service skipped
\* after a failure); when only stops failed its result is -1, when only
\* starts failed it is -2.
C17_FailoverWalksList ==
    \A t \in Threads :
        (loc[t].type = RESPONSE_SERVICE_FAILOVER /\ pc[t] \in HandlerDonePCs)
        => /\ calls[t] = FailoverCalls
           /\ failed[t] = {"systemctl stop"} => loc[t].result = -1
           /\ failed[t] = {"systemctl start backup"} => loc[t].result = -2
           /\ failed[t] = {} <=> loc[t].result = 0

\* C17 witness: a failover in which a stop and a backup start failed has been
\* through the whole list
C17_Witness ==
    /\ pc[Operator] = "ex_finish"
    /\ loc[Operator].type = RESPONSE_SERVICE_FAILOVER
    /\ failed[Operator] = {"systemctl stop", "systemctl start backup"}
    /\ Len(calls[Operator]) = 2 * Len(critical_services)

\* the four controller operations of an Evacuation, in order
EvacuationOrder ==
    <<"unlock_evacuation_routes", "activate_evacuation_lights",
      "power_down_non_essential", "enable_emergency_comms">>

\* C18: an Evacuation dispatch that has left its handler called the route
\* unlock, the lighting, the power-down and the emergency communications once
\* each in that order, whether or not the unlock succeeded, and its result is
\* negative exactly when the unlock failed.
C18_EvacuationUnconditionalSteps ==
    \A t \in Threads :
        (loc[t].type = RESPONSE_EVACUATION /\ pc[t] \in HandlerDonePCs)
        => /\ Ops(t) = EvacuationOrder
           /\ (loc[t].result < 0) <=> ("unlock_evacuation_routes" \in failed[t])
           /\ (loc[t].result = 0) <=> (failed[t] = {})

\* C18 witness: an Evacuation whose route unlock failed has made its four calls
C18_Witness ==
    /\ pc[Operator] = "ex_finish"
    /\ loc[Operator].type = RESPONSE_EVACUATION
    /\ failed[Operator] = {"unlock_evacuation_routes"}
    /\ loc[Operator].result = -1
    /\ Len(calls[Operator]) = Len(EvacuationOrder)

\* the positions of a dispatch that has passed the check of line 263 and has
\* not yet released the lock
DispatchActivePCs == {"ex_lock", "ex_reset", "ex_stamp"} \cup HandlerPCs \cup AfterHandlerPCs

\* C19: while a dispatch is past its initialized check and has not released
\* the lock, initialized is true and the lock has not been destroyed.
C19_DispatchExcludesCleanup ==
    \A t \in Threads :
        pc[t] \in DispatchActivePCs => (initialized /\ lock.st # "destroyed")

\* the step is the end of a re_init_integrated call that performed the
\* initialization: its checks passed, it sets initialized and returns 0
InitPerformed ==
    /\ ~initialized
    /\ initialized'
    /\ \E t \in Callers : pc[t] = "in_checks" /\ pc'[t] = "in_ret" /\ ret'[t] = 0

\* the step is the first statements of a re_emergency_sequence call
EmergencyTriggered ==
    /\ \E t \in Callers : pc[t] = "idle" /\ pc'[t] = "em_create"
    /\ emergency_mode'
    /\ current_level' \in 1..MaxLevel

\* emergency mode latches: emergency_mode and current_level change only in a
\* re_emergency_sequence call or in InitPerformed, which sets them to false and
\* 0; while emergency_mode is true re_subsystem_ready returns false
EmergencyLatch ==
    /\ (emergency_mode /\ ~emergency_mode') => (InitPerformed /\ current_level' = 0)
    /\ (~emergency_mode /\ emergency_mode') => EmergencyTriggered
    /\ (current_level' # current_level) => (EmergencyTriggered \/ InitPerformed)
    /\ InitPerformed => (~emergency_mode' /\ current_level' = 0)
    /\ \A t \in Callers : (pc[t] = "rdy_ret" /\ emergency_mode) => ret[t] = 0

\* C20 as stated: emergency mode latches, and the re_init_integrated call that
\* resets it comes after a cleanup (the state had been initialized before).
C20_LatchUntilInitAfterCleanup ==
    [][/\ EmergencyLatch
       /\ (emergency_mode /\ ~emergency_mode') => ever_initialized]_vars

\* C20 amended: emergency mode latches; it is reset by every re_init_integrated
\* call that performs the initialization, whether the state is uninitialized
\* because of a cleanup or because no init has succeeded yet.
C20_LatchUntilInitPerformed == [][EmergencyLatch]_vars

\* C20 witness: emergency mode is still on after the emergency thread has
\* ended and a re_cleanup_resources call has done its work and returned
C20_Witness ==
    /\ pc[Operator] = "cl_ret"
    /\ calls[Operator] # <<>>
    /\ ~initialized
    /\ emergency_mode
    /\ current_level >= 1
    /\ \A e \in Workers : pc[e] = "free"

(***************************************************************************)
(* LiveSpec: the dispatches of a client thread and of the emergency         *)
(* threads an operator thread triggers, under fair scheduling.  Requests    *)
(* of the types ConcTypes contend with the emergency dispatches for the     *)
(* lock; a request of any other type is dispatched while the operator is    *)
(* idle and no emergency thread exists, and runs alone.  Every controller   *)
(* call returns.                                                            *)
(***************************************************************************)
\* thread t is in a dispatch that runs alone
RunsAlone(t) == ~req[t].null /\ req[t].type \notin ConcTypes

\* re_execute_integrated(&request) with a request of a type outside ConcTypes,
\* called while no other thread is in an API call
CallExecuteAlone(t) ==
    /\ \A u \in Threads \ {t} : pc[u] \in {"idle", "free"}
    /\ CallExecute(t, TypeValues \ ConcTypes)

\* the steps of thread t inside re_execute_integrated: a dispatch that runs
\* alone meets both outcomes of every controller call, a contended one the
\* outcome of the controllers as built
DispatchStep(t) ==
    \/ execute_body(t)
    \/ RunsAlone(t) /\ execute_handlers(t)
    \/ ~RunsAlone(t) /\ execute_lockdown_sequence(t, StubOutcome)

LiveNext ==
    \/ ~RunsAlone(Client) /\ re_init_integrated(Operator)
    \/ ~RunsAlone(Client) /\ re_emergency_sequence(Operator)
    \/ CallExecute(Client, ConcTypes)
    \/ CallExecuteAlone(Client)
    \/ \E t \in Callers : Return(t)
    \/ \E t \in Threads : DispatchStep(t)
    \/ \E e \in Workers : emergency_thread_exit(e) \/ StackReuse(e)

\* fair scheduling: a thread that can take a step of its dispatch takes one
\* (the controllers return), and a thread waiting for the lock gets it if the
\* lock is free again and again
LiveFairness ==
    \A t \in Threads : WF_vars(DispatchStep(t)) /\ SF_vars(execute_lock(t))

LiveSpec == Init /\ [][LiveNext]_vars /\ LiveFairness

\* the positions at which a dispatch holds the lock it took
LockHeldPCs == {"ex_reset", "ex_stamp"} \cup HandlerPCs \cup AfterHandlerPCs

\* a thread owns the lock only inside its dispatch, between lock and unlock,
\* and the lock is free when no dispatch is in progress
LockOnlyInDispatch ==
    /\ \A t \in Threads : lock.owner = t => pc[t] \in LockHeldPCs
    /\ (\A t \in Threads : pc[t] \notin DispatchActivePCs) => lock.owner = NoThread

\* a dispatch returns either from its check, never having taken the lock, or
\* through its one pthread_mutex_unlock, which frees the lock; whatever the
\* type, a dispatch that has taken the lock is on its way to that unlock
ReleasedOnReturn ==
    \A t \in Threads :
        (pc'[t] = "ex_ret" /\ pc[t] # "ex_ret")
        => \/ pc[t] = "ex_check" /\ lock' = lock /\ lock.owner # t
           \/ pc[t] = "ex_unlock" /\ lock.owner = t /\ lock'.owner = NoThread

=============================================================================
